---- MODULE Spec2Model ----
(***************************************************************************)
(* Model of the reputation bot in src/main.py: the SQLite tables           *)
(* `reputation` and `ratings`, the per-command cooldown buckets installed  *)
(* by app_commands.checks.cooldown, and the slash-command handlers rep,    *)
(* norep and rate with the global error handler.                           *)
(*                                                                         *)
(* Spec      the bot as it is scheduled: one asyncio event loop, every     *)
(*           handler runs its checks and its synchronous database calls    *)
(*           without suspending, so a handler is one step.                 *)
(* SpecRate  the rate command alone, with more raters.                     *)
(* SpecConc  add_rep called by concurrent callers on separate connections: *)
(*           the SELECT and the upsert of one call are separate steps.     *)
(* SpecBoard the leaderboard command and its paginated view over a ledger  *)
(*           of 0, 10, 11 or 25 accounts, as time passes.                  *)
(* SpecSnapshot the same at one time, with a rep that changes the ledger.  *)
(* SpecTenure rep, norep and rate by the account that is too new to rate.  *)
(* SpecFrame every command, on a small ledger.                             *)
(***************************************************************************)
EXTENDS Integers, FiniteSets, Sequences, TLC

VARIABLES
    now,         \* wall clock, in seconds (interaction.created_at, datetime.now)
    reputation,  \* rows of table reputation: [user_id, rep]
    ratings,     \* rows of table ratings: [rater_id, target_id, rating]
    buckets,     \* cooldown buckets: [cmd, key, window]
    calls,       \* SpecConc: the add_rep calls in flight, per caller
    last,        \* what the most recent handler did and answered
    given,       \* history: per target, the rep submissions that succeeded
    taken,       \* history: per target, the norep submissions that succeeded
    submitted,   \* history: per (rater, target), the stars last accepted, 0 if none
    replaced,    \* history: the rate accepted last found a row of its rater and target
    view,        \* the LeaderboardView of the latest leaderboard message
    message,     \* that message as the client shows it: embed and button states
    pending,     \* edit_message payloads sent and not yet shown
    built,       \* history: the snapshots built from the table the latest one read
    touched,     \* history: when the view was created, when it was created or last navigated
    exported     \* the content of the export file

boardVars == <<view, message, pending, built, touched, exported>>

vars == <<now, reputation, ratings, buckets, calls, last, given, taken,
          submitted, replaced, view, message, pending, built, touched,
          exported>>

----------------------------------------------------------------------------
(* Configuration of src/main.py *)

MIN_RATING_ACCOUNT_AGE_DAYS == 10
PAGE_SIZE == 10
MAX_RATING == 5
VIEW_TIMEOUT == 120
COOLDOWN_PER == 240
SecondsPerDay == 86400

(* Bounds of the model *)

MaxTime == 360      \* the clock stops here
NumCallers == 2     \* concurrent callers of add_rep in SpecConc
MaxPending == 2     \* edit_message payloads sent and not yet shown

(* The accounts: 1..4 are members, 5 is a bot account. Accounts 1..3 are    *)
(* old; account 4 turns MIN_RATING_ACCOUNT_AGE_DAYS days old COOLDOWN_PER   *)
(* seconds into the run.                                                    *)
Members == {1, 2, 3, 4}
Bots == {5}
Accounts == Members \cup Bots
created_at(u) ==
    IF u = 4 THEN COOLDOWN_PER - MIN_RATING_ACCOUNT_AGE_DAYS * SecondsPerDay
    ELSE 0 - 2 * MIN_RATING_ACCOUNT_AGE_DAYS * SecondsPerDay

(* The inputs the handlers are driven with. Spec: accounts 1 and 2 give rep  *)
(* (1 to itself, to 3 and to the bot), account 2 takes rep, account 4 rates.  *)
(* SpecRate: every member rates accounts 1, 4 and the bot, stars in and out   *)
(* of 1..MAX_RATING. SpecConc: account 1 gives and takes rep of itself and  *)
(* of account 3, through NumCallers concurrent submissions.                   *)
TickSteps == {120}
RepActors == {1, 2}
NorepActors == {2}
LedgerTargets == {1, 3, 5}
RateActors == {4}
RateTargets == {1, 4}
RateStars == {3, 6}
Raters == Members
RatedTargets == {1, 4, 5}
StarsInputs == {0, 1, 3, 4, 5, 6}
Callers == 1..NumCallers
ConcActors == {1}
ConcTargets == {1, 3}
Commands == {"rep", "norep"}

(* SpecBoard, SpecSnapshot: the ledger holds a record for each of the first *)
(* n accounts that are not bots, with reps 0, 1 and 2 so that every rep     *)
(* value is tied.                                                            *)
(* Account 1 opens leaderboards; account 1 and account 2 press the buttons;  *)
(* account 2 gives rep to account 1.                                         *)
BoardSizes == {0, 10, 11, 25}
LedgerIds(n) == IF n < 5 THEN 1..n ELSE (1..(n + 1)) \ Bots
BoardLedger(n) == {[user_id |-> i, rep |-> i % 3] : i \in LedgerIds(n)}
Viewers == {1}
Requesters == {1, 2}
BoardRepActors == {2}
BoardRepTargets == {1}
TieOrders == {"asc", "desc"}
BoardTickSteps == {60}

(* SpecTenure: account 4, too new to rate until COOLDOWN_PER seconds into    *)
(* the run, gives and takes rep and rates.                                   *)
TenureActors == {4}
TenureTargets == {1, 4}
TenureStars == {3}

(* SpecFrame: a ledger of 0 or 11 accounts; account 2 gives rep to account 1 *)
(* and takes rep of account 3, accounts 1 and 2 rate account 3, account 30   *)
(* has no record and is looked up, account 1 opens leaderboards and presses  *)
(* Next, an administrator and another member ask for the export.             *)
FrameSizes == {0, 11}
FrameActors == {2}
FrameRepTargets == {1}
FrameNorepTargets == {3}
FrameRaters == {1, 2}
FrameRated == {3}
FrameStars == {4}
Lookups == {30}

None == {}
Some(x) == {x}

----------------------------------------------------------------------------
(* Database helpers *)

RepRows(table, user_id) == {r \in table : r.user_id = user_id}

\* SELECT rep FROM reputation WHERE user_id = ? ; row[0] if row else 0
SelectRep(table, user_id) ==
    IF RepRows(table, user_id) = {} THEN 0
    ELSE (CHOOSE r \in RepRows(table, user_id) : TRUE).rep

\* an upsert that sets the rep of every row
UpsertRepAll(table, user_id, new_val) ==
    {[user_id |-> r.user_id, rep |-> new_val] : r \in table}
        \cup {[user_id |-> user_id, rep |-> new_val]}

\* INSERT ... ON CONFLICT(user_id) DO UPDATE SET rep = excluded.rep
UpsertRep(table, user_id, new_val) ==
    {r \in table : r.user_id # user_id}
        \cup {[user_id |-> user_id, rep |-> new_val]}

\* add_rep that writes the amount instead of the stored value plus the amount
add_rep_value_overwrite(table, user_id, amount) == amount

\* add_rep: the value it writes and returns
add_rep_value(table, user_id, amount) == SelectRep(table, user_id) + amount

\* add_rep run without interruption: the table after it
add_rep(table, user_id, amount) ==
    UpsertRep(table, user_id, add_rep_value(table, user_id, amount))

get_rep(user_id) == SelectRep(reputation, user_id)

\* set_rating as a plain INSERT into a table without the primary key
set_rating_insert(table, rater_id, target_id, rating) ==
    table \cup {[rater_id |-> rater_id, target_id |-> target_id, rating |-> rating]}

\* INSERT ... ON CONFLICT(rater_id, target_id) DO UPDATE SET rating = excluded.rating
set_rating(table, rater_id, target_id, rating) ==
    {r \in table : ~(r.rater_id = rater_id /\ r.target_id = target_id)}
        \cup {[rater_id |-> rater_id, target_id |-> target_id, rating |-> rating]}

RatingRows(table, target_id) == {r \in table : r.target_id = target_id}

RECURSIVE SumRating(_)
SumRating(rows) ==
    IF rows = {} THEN 0
    ELSE LET r == CHOOSE x \in rows : TRUE
         IN r.rating + SumRating(rows \ {r})

\* round(avg, 2), in hundredths. No average over fewer than 8 rows is a tie
\* in the third decimal, so rounding half up is what round() returns.
Round2(sum, count) == (200 * sum + count) \div (2 * count)

\* get_rating without its WHERE target_id = ? clause
get_rating_all(table, target_id) ==
    LET count == Cardinality(table)
    IN IF count # 0
       THEN [avg |-> Some(Round2(SumRating(table), count)), count |-> count]
       ELSE [avg |-> None, count |-> 0]

\* SELECT AVG(rating), COUNT(*) ... ; (round(avg, 2), count) if count else (None, 0)
get_rating_in(table, target_id) ==
    LET rows  == RatingRows(table, target_id)
        count == Cardinality(rows)
    IN IF count # 0
       THEN [avg |-> Some(Round2(SumRating(rows), count)), count |-> count]
       ELSE [avg |-> None, count |-> 0]

get_rating(target_id) == get_rating_in(ratings, target_id)

----------------------------------------------------------------------------
(* Utilities *)

\* the age as the timedelta's seconds instead of its days
account_age_seconds(user) == now - created_at(user)

\* (datetime.now(timezone.utc) - user.created_at).days
account_age_days(user) == (now - created_at(user)) \div SecondsPerDay

----------------------------------------------------------------------------
(* app_commands.checks.cooldown(1, 240): one bucket per command and invoking *)
(* user; the check runs before the command body and, when it passes, starts  *)
(* the window.                                                               *)

Bucket(cmd, key) == {b \in buckets : b.cmd = cmd /\ b.key = key}

\* a cooldown check that lets every submission through
CooldownAlwaysPasses(cmd, key) == TRUE

CooldownPasses(cmd, key) ==
    \/ Bucket(cmd, key) = {}
    \/ \E b \in Bucket(cmd, key) : now > b.window + COOLDOWN_PER

RetryAfter(cmd, key) ==
    LET b == CHOOSE x \in Bucket(cmd, key) : TRUE
    IN COOLDOWN_PER - (now - b.window)

StartWindow(cmd, key) ==
    {b \in buckets : ~(b.cmd = cmd /\ b.key = key)}
        \cup {[cmd |-> cmd, key |-> key, window |-> now]}

----------------------------------------------------------------------------
(* The global error handler: only MissingPermissions is answered, any other  *)
(* error is raised again and the user gets no message.                       *)

on_app_command_error(error) ==
    IF error = "MissingPermissions" THEN "no_permission" ELSE "no_reply"

Result(outcome, value, reply) ==
    [outcome |-> outcome, value |-> value, reply |-> reply]

InvalidTarget(actor, member) == member \in Bots \/ member = actor

Call(pc, cmd, actor, target, new_val, at) ==
    [pc |-> pc, cmd |-> cmd, actor |-> actor, target |-> target,
     new_val |-> new_val, at |-> at]

IdleCall == Call("idle", "rep", 0, 0, 0, 0)

\* no leaderboard has been opened, no export written
NoView ==
    [open |-> FALSE, items |-> <<>>, author_id |-> 0, page |-> 0, max_pages |-> 1,
     previous_disabled |-> TRUE, next_disabled |-> TRUE, expiry |-> 0]

NoEmbed == [fields |-> <<>>, viewer_rank |-> None, viewer_rep |-> 0,
            viewer_rating |-> [avg |-> None, count |-> 0], footer |-> <<1, 1>>]

NoMessage == [embed |-> NoEmbed, previous_disabled |-> TRUE, next_disabled |-> TRUE]

NoTouch == [created |-> 0, at |-> 0]

NoFile == [written |-> FALSE, entries |-> {}]

----------------------------------------------------------------------------
Init ==
    /\ now = 0
    /\ reputation = {}
    /\ ratings = {}
    /\ buckets = {}
    /\ calls = [c \in Callers |-> IdleCall]
    /\ last = Result("none", 0, "no_reply")
    /\ given = [u \in Accounts |-> 0]
    /\ taken = [u \in Accounts |-> 0]
    /\ submitted = [p \in Members \X Accounts |-> 0]
    /\ replaced = FALSE
    /\ view = NoView
    /\ message = NoMessage
    /\ pending = <<>>
    /\ built = {}
    /\ touched = NoTouch
    /\ exported = NoFile

Tick(d) ==
    /\ now + d <= MaxTime
    /\ now' = now + d
    /\ UNCHANGED <<reputation, ratings, buckets, calls, last, given, taken,
                   submitted, replaced>>
    /\ UNCHANGED boardVars

(* rep and norep differ in the command name, the amount and the message.    *)
(* dbOk = FALSE is a run in which add_rep raises (sqlite3.Error): the        *)
(* connection's context manager rolls back, the handler ends with the error. *)
Amount(cmd) == IF cmd = "rep" THEN 1 ELSE 0 - 1

GivenAfter(cmd, member) ==
    IF cmd = "rep" THEN [given EXCEPT ![member] = @ + 1] ELSE given

TakenAfter(cmd, member) ==
    IF cmd = "norep" THEN [taken EXCEPT ![member] = @ + 1] ELSE taken

RepCommand(cmd, actor, member, dbOk) ==
    /\ UNCHANGED <<now, ratings, calls, submitted, replaced>>
    /\ UNCHANGED boardVars
    /\ IF ~CooldownPasses(cmd, actor)
       THEN /\ last' = Result("on_cooldown",
                              RetryAfter(cmd, actor),
                              on_app_command_error("CommandOnCooldown"))
            /\ UNCHANGED <<reputation, buckets, given, taken>>
       ELSE /\ buckets' = StartWindow(cmd, actor)
            /\ IF InvalidTarget(actor, member)
               THEN /\ last' = Result("invalid_target", 0,
                                      "invalid_target")
                    /\ UNCHANGED <<reputation, given, taken>>
               ELSE IF ~dbOk
               THEN /\ last' = Result("db_error", 0,
                                      on_app_command_error("CommandInvokeError"))
                    /\ UNCHANGED <<reputation, given, taken>>
               ELSE /\ reputation' = add_rep(reputation, member, Amount(cmd))
                    /\ last' = Result("ok",
                                      add_rep_value(reputation, member, Amount(cmd)),
                                      cmd)
                    /\ given' = GivenAfter(cmd, member)
                    /\ taken' = TakenAfter(cmd, member)

rep(actor, member, dbOk) == RepCommand("rep", actor, member, dbOk)

norep(actor, member, dbOk) == RepCommand("norep", actor, member, dbOk)

\* rate declared with stars: int, without the Range[int, 1, 5] annotation
rate_any_stars(actor, member, stars) ==
    /\ UNCHANGED <<now, reputation, buckets, calls, given, taken>>
    /\ UNCHANGED boardVars
    /\ IF InvalidTarget(actor, member)
       THEN /\ last' = Result("invalid_target", 0, "invalid_target")
            /\ UNCHANGED <<ratings, submitted, replaced>>
       ELSE IF account_age_days(actor) < MIN_RATING_ACCOUNT_AGE_DAYS
       THEN /\ last' = Result("too_new", 0, "too_new")
            /\ UNCHANGED <<ratings, submitted, replaced>>
       ELSE /\ ratings' = set_rating(ratings, actor, member, stars)
            /\ last' = Result("ok", stars, "rate")
            /\ submitted' = [submitted EXCEPT ![<<actor, member>>] = stars]
            /\ replaced' = (submitted[<<actor, member>>] # 0)

rate(actor, member, stars) ==
    /\ UNCHANGED <<now, reputation, buckets, calls, given, taken>>
    /\ UNCHANGED boardVars
    /\ IF stars \notin 1..MAX_RATING
       THEN /\ last' = Result("bad_stars", 0,
                              on_app_command_error("TransformerError"))
            /\ UNCHANGED <<ratings, submitted, replaced>>
       ELSE IF InvalidTarget(actor, member)
       THEN /\ last' = Result("invalid_target", 0,
                              "invalid_target")
            /\ UNCHANGED <<ratings, submitted, replaced>>
       ELSE IF account_age_days(actor) < MIN_RATING_ACCOUNT_AGE_DAYS
       THEN /\ last' = Result("too_new", 0, "too_new")
            /\ UNCHANGED <<ratings, submitted, replaced>>
       ELSE /\ ratings' = set_rating(ratings, actor, member, stars)
            /\ last' = Result("ok", stars, "rate")
            /\ submitted' = [submitted EXCEPT ![<<actor, member>>] = stars]
            /\ replaced' = (submitted[<<actor, member>>] # 0)

Next ==
    \/ \E d \in TickSteps : Tick(d)
    \/ \E a \in RepActors, m \in LedgerTargets, ok \in BOOLEAN : rep(a, m, ok)
    \/ \E a \in NorepActors, m \in LedgerTargets, ok \in BOOLEAN : norep(a, m, ok)
    \/ \E a \in RateActors, m \in RateTargets, s \in RateStars : rate(a, m, s)

Spec == Init /\ [][Next]_vars

NextRate ==
    \E a \in Raters, m \in RatedTargets, s \in StarsInputs : rate(a, m, s)

SpecRate == Init /\ [][NextRate]_vars

----------------------------------------------------------------------------
(* SpecConc: rep and norep submitted by concurrent callers. The cooldown     *)
(* check and the target test run without suspending (Submit). add_rep opens  *)
(* its own connection and holds no transaction or lock from its SELECT to    *)
(* its INSERT (the implicit transaction of sqlite3 begins at the INSERT), so *)
(* another caller's statements can run between them (Select, Upsert).        *)

\* A caller that is not inside add_rep submits; what is kept of a finished
\* submission is its command, its actor and the time of its cooldown check.
Submit(c, cmd, actor, member) ==
    /\ calls[c].pc \notin {"select", "upsert"}
    /\ UNCHANGED <<now, reputation, ratings, last, given, taken, submitted,
                   replaced>>
    /\ UNCHANGED boardVars
    /\ IF ~CooldownPasses(cmd, actor)
       THEN /\ calls' = [calls EXCEPT ![c] =
                           Call("on_cooldown", cmd, actor, 0, 0, now)]
            /\ UNCHANGED buckets
       ELSE /\ buckets' = StartWindow(cmd, actor)
            /\ IF InvalidTarget(actor, member)
               THEN calls' = [calls EXCEPT ![c] =
                               Call("invalid_target", cmd, actor, 0, 0, now)]
               ELSE calls' = [calls EXCEPT ![c] =
                               Call("select", cmd, actor, member, 0, now)]

\* add_rep, lines 72-77: the SELECT and new_val
Select(c) ==
    /\ calls[c].pc = "select"
    /\ calls' = [calls EXCEPT ![c].pc = "upsert",
                              ![c].new_val = add_rep_value(reputation,
                                               calls[c].target, Amount(calls[c].cmd))]
    /\ UNCHANGED <<now, reputation, ratings, buckets, last, given, taken,
                   submitted, replaced>>
    /\ UNCHANGED boardVars

\* add_rep, lines 79-88: the upsert, the commit and the return
Upsert(c) ==
    /\ calls[c].pc = "upsert"
    /\ reputation' = UpsertRep(reputation, calls[c].target, calls[c].new_val)
    /\ calls' = [calls EXCEPT ![c] =
                   Call("done", calls[c].cmd, calls[c].actor, 0, 0, calls[c].at)]
    /\ last' = Result("ok", calls[c].new_val, calls[c].cmd)
    /\ given' = GivenAfter(calls[c].cmd, calls[c].target)
    /\ taken' = TakenAfter(calls[c].cmd, calls[c].target)
    /\ UNCHANGED <<now, ratings, buckets, submitted, replaced>>
    /\ UNCHANGED boardVars

NextConc ==
    \/ \E d \in TickSteps : Tick(d)
    \/ \E c \in Callers, cmd \in Commands, a \in ConcActors, m \in ConcTargets :
          Submit(c, cmd, a, m)
    \/ \E c \in Callers : Select(c)
    \/ \E c \in Callers : Upsert(c)

SpecConc == Init /\ [][NextConc]_vars

NextTenure ==
    \/ \E d \in TickSteps : Tick(d)
    \/ \E a \in TenureActors, m \in TenureTargets : rep(a, m, TRUE)
    \/ \E a \in TenureActors, m \in TenureTargets : norep(a, m, TRUE)
    \/ \E a \in TenureActors, m \in TenureTargets, s \in TenureStars :
          rate(a, m, s)

SpecTenure == Init /\ [][NextTenure]_vars

----------------------------------------------------------------------------
(* The leaderboard *)

Min(a, b) == IF a < b THEN a ELSE b
Max(a, b) == IF a > b THEN a ELSE b

(* SELECT user_id, rep FROM reputation ORDER BY rep DESC. The statement      *)
(* names no second sort key, so SQL leaves the order of rows with equal rep  *)
(* to the engine: tie is the order the engine emits them in, by ascending or *)
(* by descending user_id.                                                    *)
ComesBefore(q, r, tie) ==
    \/ q.rep > r.rep
    \/ /\ q.rep = r.rep
       /\ IF tie = "asc" THEN q.user_id < r.user_id ELSE q.user_id > r.user_id

Insert(seq, r, tie) ==
    LET pos == 1 + Cardinality({i \in 1..Len(seq) : ComesBefore(seq[i], r, tie)})
    IN SubSeq(seq, 1, pos - 1) \o <<r>> \o SubSeq(seq, pos, Len(seq))

RECURSIVE get_sorted_rep_items(_, _)
get_sorted_rep_items(table, tie) ==
    IF table = {} THEN <<>>
    ELSE LET r == CHOOSE x \in table : TRUE
         IN Insert(get_sorted_rep_items(table \ {r}, tie), r, tie)

\* max(1, math.ceil(len(items) / PAGE_SIZE))
total_pages(items) == Max(1, (Len(items) + PAGE_SIZE - 1) \div PAGE_SIZE)

\* items[start:end] taken one position too far at its end
SliceInclusive(items, start, end) ==
    SubSeq(items, start + 1, Min(end + 1, Len(items)))

\* items[start:end], for 0 <= start <= end
Slice(items, start, end) == SubSeq(items, start + 1, Min(end, Len(items)))

\* next((i for i, (uid, _) in enumerate(items, 1) if uid == viewer_id), None)
ViewerRank(items, viewer_id) ==
    LET hits == {i \in 1..Len(items) : items[i].user_id = viewer_id}
    IN IF hits = {} THEN None
       ELSE Some(CHOOSE i \in hits : \A j \in hits : i <= j)

(* The embed: one field per entry of the page, with its rank, then the      *)
(* viewer's stats, then the footer Page page+1/total_pages. The viewer's rep *)
(* is read from the table at the time of the rendering.                      *)
make_leaderboard_embed(items, page, viewer_id) ==
    LET total == total_pages(items)
        p     == Max(0, Min(page, total - 1))
        start == p * PAGE_SIZE
        end   == start + PAGE_SIZE
        shown == Slice(items, start, end)
    IN [fields |-> [k \in 1..Len(shown) |->
                       [index   |-> start + k,
                        user_id |-> shown[k].user_id,
                        rep     |-> shown[k].rep,
                        rating  |-> get_rating(shown[k].user_id)]],
        viewer_rank   |-> ViewerRank(items, viewer_id),
        viewer_rep    |-> get_rep(viewer_id),
        viewer_rating |-> get_rating(viewer_id),
        footer        |-> <<p + 1, total>>]

\* LeaderboardView.update_buttons
update_buttons(v) ==
    [v EXCEPT !.previous_disabled = (v.page <= 0),
              !.next_disabled = (v.page >= v.max_pages - 1)]

\* LeaderboardView.__init__
LeaderboardView(items, author_id) ==
    update_buttons([open |-> TRUE, items |-> items, author_id |-> author_id,
                    page |-> 0, max_pages |-> total_pages(items),
                    previous_disabled |-> FALSE, next_disabled |-> FALSE,
                    expiry |-> now + VIEW_TIMEOUT])

\* an interaction_check that lets every user through
interaction_check_anyone(v, user_id) == TRUE

\* LeaderboardView.interaction_check
interaction_check(v, user_id) == user_id = v.author_id

\* a view that never times out
ViewNeverExpires(v) == FALSE

\* the view has timed out: it was stopped, or its timer is past due
ViewExpired(v) == ~v.open \/ now > v.expiry

\* what edit_message(embed=embed, view=self) sends
Payload(embed, v) ==
    [embed |-> embed, previous_disabled |-> v.previous_disabled,
     next_disabled |-> v.next_disabled]

InitBoard ==
    /\ now = 0
    /\ \E n \in BoardSizes : reputation = BoardLedger(n)
    /\ ratings = {}
    /\ buckets = {}
    /\ calls = [c \in Callers |-> IdleCall]
    /\ last = Result("none", 0, "no_reply")
    /\ given = [u \in Accounts |-> 0]
    /\ taken = [u \in Accounts |-> 0]
    /\ submitted = [p \in Members \X Accounts |-> 0]
    /\ replaced = FALSE
    /\ view = NoView
    /\ message = NoMessage
    /\ pending = <<>>
    /\ built = {}
    /\ touched = NoTouch
    /\ exported = NoFile

(* /leaderboard: the snapshot is read once, the first page is rendered from  *)
(* it and sent with a new view. The model follows the latest message only.   *)
leaderboard(viewer, tie) ==
    \E items \in {get_sorted_rep_items(reputation, tie)} :
       /\ UNCHANGED <<now, reputation, ratings, buckets, calls, given, taken,
                      submitted, replaced, exported>>
       /\ IF items = <<>>
          THEN /\ last' = Result("no_data", 0, "no_data")
               /\ UNCHANGED <<view, message, pending, built, touched>>
          ELSE /\ view' = LeaderboardView(items, viewer)
               /\ message' = Payload(make_leaderboard_embed(items, 0, viewer), view')
               /\ pending' = <<>>
               /\ built' = {b \in built : b.table = reputation}
                               \cup {[table |-> reputation, items |-> items]}
               /\ touched' = [created |-> now, at |-> now]
               /\ last' = Result("ok", 0, "leaderboard")

(* A press of a button of the message. The client offers a button as the     *)
(* message it shows has it, so a press can come before the edit that answers *)
(* an earlier press is shown. The library drops the press when the view has  *)
(* timed out, then asks interaction_check, then restarts the timeout and     *)
(* runs the callback: the page moves by one, the buttons are updated, the    *)
(* page is rendered and sent as an edit of the message.                      *)
Navigate(requester, delta) ==
    /\ view.author_id # 0
    /\ ~(IF delta < 0 THEN message.previous_disabled ELSE message.next_disabled)
    /\ Len(pending) < MaxPending
    /\ UNCHANGED <<now, reputation, ratings, buckets, calls, given, taken,
                   submitted, replaced, message, built, exported>>
    /\ IF ViewExpired(view)
       THEN /\ last' = Result("expired", 0, "no_reply")
            /\ UNCHANGED <<view, pending, touched>>
       ELSE IF ~interaction_check(view, requester)
       THEN /\ last' = Result("not_yours", 0, "not_yours")
            /\ UNCHANGED <<view, pending, touched>>
       ELSE /\ view' = update_buttons([view EXCEPT !.page = @ + delta,
                                                   !.expiry = now + VIEW_TIMEOUT])
            /\ pending' = Append(pending,
                              Payload(make_leaderboard_embed(view.items, view'.page,
                                                             view.author_id), view'))
            /\ touched' = [touched EXCEPT !.at = now]
            /\ last' = Result("ok", 0, IF delta < 0 THEN "previous" ELSE "next")

previous(requester) == Navigate(requester, 0 - 1)

next(requester) == Navigate(requester, 1)

\* the client shows the oldest edit not yet shown
EditMessage ==
    /\ pending # <<>>
    /\ message' = Head(pending)
    /\ pending' = Tail(pending)
    /\ UNCHANGED <<now, reputation, ratings, buckets, calls, last, given, taken,
                   submitted, replaced, view, built, touched, exported>>

\* the timer of View(timeout=120) is due: the view stops taking interactions
Timeout ==
    /\ view.open
    /\ now >= view.expiry
    /\ view' = [view EXCEPT !.open = FALSE]
    /\ UNCHANGED <<now, reputation, ratings, buckets, calls, last, given, taken,
                   submitted, replaced, message, pending, built, touched, exported>>

NextBoard ==
    \/ \E d \in BoardTickSteps : Tick(d)
    \/ \E v \in Viewers, t \in TieOrders : leaderboard(v, t)
    \/ \E r \in Requesters : previous(r)
    \/ \E r \in Requesters : next(r)
    \/ EditMessage
    \/ Timeout

SpecBoard == InitBoard /\ [][NextBoard]_vars

\* /checkrep member: get_rep and get_rating of the member, and the reply
checkrep(member) ==
    /\ last' = Result("ok", get_rep(member), "checkrep")
    /\ UNCHANGED <<now, reputation, ratings, buckets, calls, given, taken,
                   submitted, replaced>>
    /\ UNCHANGED boardVars

\* a number as JSON writes it
JsonInt(n) == [kind |-> "int", int |-> n]

(* /exportrep: refused by has_permissions unless the user is an             *)
(* administrator; then {str(uid): rep for uid, rep in rows} is written to    *)
(* the export file.                                                          *)
exportrep(administrator) ==
    /\ UNCHANGED <<now, reputation, ratings, buckets, calls, given, taken,
                   submitted, replaced, view, message, pending, built, touched>>
    /\ IF ~administrator
       THEN /\ last' = Result("no_permission", 0,
                              on_app_command_error("MissingPermissions"))
            /\ UNCHANGED exported
       ELSE /\ exported' = [written |-> TRUE,
                            entries |-> {[key |-> ToString(r.user_id),
                                          value |-> JsonInt(r.rep)] :
                                            r \in reputation}]
            /\ last' = Result("ok", 0, "exportrep")

InitFrame ==
    /\ now = 0
    /\ \E n \in FrameSizes : reputation = BoardLedger(n)
    /\ ratings = {}
    /\ buckets = {}
    /\ calls = [c \in Callers |-> IdleCall]
    /\ last = Result("none", 0, "no_reply")
    /\ given = [u \in Accounts |-> 0]
    /\ taken = [u \in Accounts |-> 0]
    /\ submitted = [p \in Members \X Accounts |-> 0]
    /\ replaced = FALSE
    /\ view = NoView
    /\ message = NoMessage
    /\ pending = <<>>
    /\ built = {}
    /\ touched = NoTouch
    /\ exported = NoFile

NextFrame ==
    \/ \E a \in FrameActors, m \in FrameRepTargets : rep(a, m, TRUE)
    \/ \E a \in FrameActors, m \in FrameNorepTargets : norep(a, m, TRUE)
    \/ \E a \in FrameRaters, m \in FrameRated, s \in FrameStars : rate(a, m, s)
    \/ \E m \in Lookups : checkrep(m)
    \/ \E v \in Viewers, t \in TieOrders : leaderboard(v, t)
    \/ \E r \in Viewers : next(r)
    \/ \E ad \in BOOLEAN : exportrep(ad)

SpecFrame == InitFrame /\ [][NextFrame]_vars

NextSnapshot ==
    \/ \E a \in BoardRepActors, m \in BoardRepTargets : rep(a, m, TRUE)
    \/ \E v \in Viewers, t \in TieOrders : leaderboard(v, t)
    \/ \E r \in Requesters : previous(r)
    \/ \E r \in Requesters : next(r)
    \/ EditMessage

SpecSnapshot == InitBoard /\ [][NextSnapshot]_vars


----------------------------------------------------------------------------
(* Properties *)

Abs(x) == IF x < 0 THEN 0 - x ELSE x

Window(cmd, key) == (CHOOSE b \in Bucket(cmd, key) : TRUE).window

Rejections == {"invalid_target", "too_new", "on_cooldown"}

\* C1 (SpecConc): once no add_rep call is between its SELECT and its upsert,
\* every account's stored rep is its initial value 0 plus the sum of the
\* deltas of the add_rep calls that completed on it (+1 per rep, -1 per
\* norep): no update is lost.
C1_NoLostUpdate ==
    (\A c \in Callers : calls[c].pc \notin {"select", "upsert"})
        => \A u \in Accounts : get_rep(u) = given[u] - taken[u]

\* C2 (Spec): an account that no norep has succeeded on has a record exactly
\* when a rep succeeded on it, and its stored count is the number N of rep
\* submissions that succeeded on it; the rep that made it N returned N.
C2_CountIsN ==
    \A u \in Accounts :
        taken[u] = 0 =>
            /\ get_rep(u) = given[u]
            /\ (RepRows(reputation, u) = {}) <=> (given[u] = 0)

\* the step in which a rep succeeds on m is the one that counts it in given[m]
C2_ReturnsN ==
    \A m \in Accounts :
        (given'[m] = given[m] + 1 /\ taken[m] = 0)
            => last' = Result("ok", given'[m], "rep")

\* C2: the count holds after every step and every successful rep returns it
C2_PositiveCount == [][C2_CountIsN' /\ C2_ReturnsN]_vars

C2_Witness ==
    /\ given[3] = 3 /\ taken[3] = 0
    /\ get_rep(3) = 3
    /\ last = Result("ok", 3, "rep")

\* C3 (Spec): every stored reputation counter is >= 0 in every reachable state.
C3_CountersNonNegative == \A r \in reputation : r.rep >= 0

\* C4 (Spec): no step decreases the positive count stored for any account.
C4_PositiveNeverDecreases ==
    [][\A u \in Accounts :
          SelectRep(reputation', u) >= SelectRep(reputation, u)]_vars

\* C5 (Spec): a rep or norep by an actor whose earlier submission of that
\* command started a window: before COOLDOWN_PER seconds have passed it is
\* rejected, the caller is told a remaining wait > 0 and the ledger is
\* unchanged; from COOLDOWN_PER seconds on, it succeeds (on a valid target,
\* with a working database).
C5_Step ==
    \A cmd \in Commands, a \in Members, m \in Accounts, ok \in BOOLEAN :
        (RepCommand(cmd, a, m, ok) /\ Bucket(cmd, a) # {}) =>
            /\ (now - Window(cmd, a) < COOLDOWN_PER) =>
                   /\ last'.outcome = "on_cooldown"
                   /\ last'.reply = "on_cooldown"
                   /\ last'.value > 0
                   /\ reputation' = reputation
            /\ (now - Window(cmd, a) >= COOLDOWN_PER /\ ~InvalidTarget(a, m) /\ ok)
                   => last'.outcome = "ok"

\* C5: every rep and norep step obeys the cooldown window as stated
C5_CooldownWindow == [][C5_Step]_vars

\* C6 (SpecConc): of the submissions of one command by one actor that are in
\* flight or finished, no two whose cooldown checks are less than
\* COOLDOWN_PER seconds apart have both passed the check; only a submission
\* that passed it reaches add_rep.
PassedCheck(c) == calls[c].pc \in {"invalid_target", "select", "upsert", "done"}

C6_OnePassPerWindow ==
    \A c1, c2 \in Callers :
        (/\ c1 # c2
         /\ PassedCheck(c1) /\ PassedCheck(c2)
         /\ calls[c1].cmd = calls[c2].cmd
         /\ calls[c1].actor = calls[c2].actor)
            => Abs(calls[c1].at - calls[c2].at) >= COOLDOWN_PER

C6_Witness ==
    \E c1, c2 \in Callers :
        /\ calls[c1].pc = "upsert"
        /\ calls[c2].pc = "on_cooldown"
        /\ calls[c1].cmd = calls[c2].cmd
        /\ calls[c1].actor = calls[c2].actor
        /\ calls[c2].at - calls[c1].at \in 0..(COOLDOWN_PER - 1)

\* C7 (Spec): a rep, norep or rate that is rejected (invalid target, actor too
\* new, cooldown unexpired) leaves the ledger, the ratings table and the
\* cooldown buckets as they were.
C7_Step ==
    /\ \A cmd \in Commands, a \in Members, m \in Accounts, ok \in BOOLEAN :
          (RepCommand(cmd, a, m, ok) /\ last'.outcome \in Rejections)
              => UNCHANGED <<reputation, ratings, buckets>>
    /\ \A a \in Members, m \in Accounts, st \in StarsInputs :
          (rate(a, m, st) /\ last'.outcome \in Rejections)
              => UNCHANGED <<reputation, ratings, buckets>>

\* C7: every rejected submission is a step that mutates nothing
C7_RejectedMutatesNothing == [][C7_Step]_vars

\* C8 (Spec): a rep or norep on a valid target, whether or not add_rep fails,
\* either both starts the actor's cooldown window and changes the ledger, or
\* does neither.
C8_Step ==
    \A cmd \in Commands, a \in Members, m \in Accounts, ok \in BOOLEAN :
        (RepCommand(cmd, a, m, ok) /\ ~InvalidTarget(a, m))
            => ((buckets' # buckets) <=> (reputation' # reputation))

\* C8: every rep and norep step writes the cooldown and the ledger together
C8_CooldownAndLedgerTogether == [][C8_Step]_vars

\* C9 (SpecRate): the ratings table has at most one row per (rater, target);
\* the row is there exactly when the rater has had a submission accepted for
\* the target and holds the stars of the latest one; the target's rows are as
\* many as the raters who ever rated it, so a repeat submission adds none.
RatersOf(t) == {r \in Members : submitted[<<r, t>>] # 0}

C9_OneRatingPerPair ==
    /\ \A x, y \in ratings :
          (x.rater_id = y.rater_id /\ x.target_id = y.target_id) => x = y
    /\ \A r \in Members, t \in Accounts :
          {x.rating : x \in {y \in ratings : y.rater_id = r /\ y.target_id = t}}
              = IF submitted[<<r, t>>] = 0 THEN {} ELSE {submitted[<<r, t>>]}
    /\ \A t \in Accounts :
          Cardinality(RatingRows(ratings, t)) = Cardinality(RatersOf(t))

C9_Witness ==
    /\ RatingRows(ratings, 4) =
          {[rater_id |-> 1, target_id |-> 4, rating |-> 1],
           [rater_id |-> 2, target_id |-> 4, rating |-> 3],
           [rater_id |-> 3, target_id |-> 4, rating |-> 4]}
    /\ get_rating(4) = [avg |-> Some(267), count |-> 3]
    /\ last = Result("ok", 1, "rate")
    /\ replaced

\* C10 (SpecRate): get_rating(target) returns as count the number of distinct
\* raters with an accepted rating of the target and as average the mean of
\* their latest stars, rounded to hundredths; it returns (None, 0) exactly
\* when the table has no row for the target.
RECURSIVE SumSubmitted(_, _)
SumSubmitted(raters, t) ==
    IF raters = {} THEN 0
    ELSE LET r == CHOOSE x \in raters : TRUE
         IN submitted[<<r, t>>] + SumSubmitted(raters \ {r}, t)

C10_Aggregate ==
    \A t \in Accounts :
        LET g == get_rating(t)
            n == Cardinality(RatersOf(t))
        IN /\ g.count = n
           /\ (n = 0) => g.avg = None
           /\ (n > 0) =>
                 /\ Cardinality(g.avg) = 1
                 /\ \A x \in g.avg :
                       2 * Abs(n * x - 100 * SumSubmitted(RatersOf(t), t)) <= n
           /\ (g = [avg |-> None, count |-> 0]) <=> (RatingRows(ratings, t) = {})

C10_Witness ==
    /\ submitted[<<1, 4>>] = 5 /\ submitted[<<2, 4>>] = 3 /\ submitted[<<3, 4>>] = 4
    /\ get_rating(4) = [avg |-> Some(400), count |-> 3]

\* C11 (SpecRate): every stored rating row has stars in 1..MAX_RATING, whatever
\* stars the rate submissions carried.
C11_StarsInRange == \A r \in ratings : r.rating \in 1..MAX_RATING

\* a submission with stars out of range was turned away from a table that
\* holds ratings, the lowest and the highest among them
C11_Witness ==
    /\ last.outcome = "bad_stars"
    /\ \E x, y \in ratings : x.rating = 1 /\ y.rating = MAX_RATING

\* C12 (SpecBoard): the page of the view is within 0..total pages - 1 after
\* any presses of Previous and Next.
C12_PageInRange ==
    /\ view.max_pages = total_pages(view.items)
    /\ view.page \in 0..(view.max_pages - 1)

\* C13 (SpecBoard): for the snapshot of n entries of a view, the total is
\* max(1, ceil(n / PAGE_SIZE)) pages; page p shows exactly the entries at
\* positions PAGE_SIZE*p + 1 .. min(PAGE_SIZE*p + PAGE_SIZE, n), in order and
\* labelled with those ranks; every entry is on exactly one page; the message
\* shown and every edit on its way are such pages.
PageOf(p) == make_leaderboard_embed(view.items, p, view.author_id)

\* the ranks that page p shows
RanksOn(p) ==
    UNION {{e.fields[k].index : k \in 1..Len(e.fields)} : e \in {PageOf(p)}}

C13_PageShowsItsRanks(e, p) ==
    LET n     == Len(view.items)
        first == PAGE_SIZE * p
    IN /\ Len(e.fields) = Min(first + PAGE_SIZE, n) - first
       /\ \A k \in 1..Len(e.fields) :
             /\ e.fields[k].index = first + k
             /\ e.fields[k].user_id = view.items[first + k].user_id
             /\ e.fields[k].rep = view.items[first + k].rep

C13_Pagination ==
    /\ total_pages(<<>>) = 1
    /\ view.author_id # 0 =>
          LET n     == Len(view.items)
              total == total_pages(view.items)
          IN /\ total >= 1
             /\ PAGE_SIZE * (total - 1) < n /\ n <= PAGE_SIZE * total
             /\ view.max_pages = total
             /\ \A p \in 0..(total - 1) :
                   \E e \in {PageOf(p)} :
                       /\ e.footer = <<p + 1, total>>
                       /\ C13_PageShowsItsRanks(e, p)
             /\ UNION {RanksOn(p) : p \in 0..(total - 1)} = 1..n
             /\ \A p, q \in 0..(total - 1) :
                   (p < q) => (RanksOn(p) \cap RanksOn(q) = {})
             /\ \A m \in {message} \cup {pending[j] : j \in 1..Len(pending)} :
                   /\ m.embed.footer[2] = total
                   /\ m.embed.footer[1] \in 1..total
                   /\ C13_PageShowsItsRanks(m.embed, m.embed.footer[1] - 1)

\* of 25 accounts, the third of three pages is shown, with ranks 21 to 25
C13_Witness ==
    /\ Len(view.items) = 25
    /\ message.embed.footer = <<3, 3>>
    /\ Len(message.embed.fields) = 5
    /\ message.embed.fields[1].index = 21
    /\ message.embed.fields[5].index = 25

\* C14 (SpecBoard): a press of Previous or Next by a requester who is not the
\* author of the view changes neither the page nor the snapshot nor anything
\* else of the view, and sends no edit, whatever page the view is on.
C14_Step ==
    \A r \in Requesters, d \in {0 - 1, 1} :
        (r # view.author_id /\ Navigate(r, d))
            => /\ view' = view
               /\ pending' = pending
               /\ last'.outcome \in {"not_yours", "expired"}

C14_OwnerOnly == [][C14_Step]_vars

\* the press of a stranger was turned away on the last of three pages
C14_Witness ==
    /\ last.outcome = "not_yours"
    /\ view.open
    /\ view.page = 2 /\ view.max_pages = 3

\* C15 (SpecSnapshot): the message of a view, and every edit on its way, shows
\* the snapshot taken when the leaderboard was opened: the entries of its
\* page, and as the viewer's stats the viewer's rank and rep in the snapshot.
SnapshotRep(items, user_id) ==
    LET hits == {i \in 1..Len(items) : items[i].user_id = user_id}
    IN IF hits = {} THEN 0 ELSE items[CHOOSE i \in hits : TRUE].rep

C15_SameSnapshot ==
    view.author_id # 0 =>
        \A m \in {message} \cup {pending[j] : j \in 1..Len(pending)} :
            /\ C13_PageShowsItsRanks(m.embed, m.embed.footer[1] - 1)
            /\ m.embed.viewer_rank = ViewerRank(view.items, view.author_id)
            /\ m.embed.viewer_rep = SnapshotRep(view.items, view.author_id)

Idle == now - touched.at

Accepted == Len(pending') = Len(pending) + 1

C17_Step ==
    /\ Accepted => (view.open /\ Idle <= VIEW_TIMEOUT)
    /\ (view.author_id # 0 /\ Idle > VIEW_TIMEOUT)
          => (view'.page = view.page \/ last'.reply = "leaderboard")
    /\ (last' # last /\ last'.outcome = "expired") => Idle >= VIEW_TIMEOUT

C17_IdleTimeout == [][C17_Step]_vars

\* a press was dropped for expiry on a view that had taken presses
\* VIEW_TIMEOUT seconds and more after its creation
C17_Witness ==
    /\ last.outcome = "expired"
    /\ touched.at - touched.created > VIEW_TIMEOUT
    /\ view.page = 2

\* C18 (SpecTenure): a rate by an actor whose account is less than
\* MIN_RATING_ACCOUNT_AGE_DAYS days old is answered "too new" and stores no
\* rating; a rep or norep by such an actor is never answered "too new", and
\* on a valid target with no cooldown running it changes the ledger.
TooNewToRate(a) ==
    now - created_at(a) < MIN_RATING_ACCOUNT_AGE_DAYS * SecondsPerDay

C18_Step ==
    /\ \A a \in TenureActors, m \in TenureTargets, st \in TenureStars :
          (rate(a, m, st) /\ TooNewToRate(a))
              => /\ last'.outcome \in {"too_new", "invalid_target"}
                 /\ ~InvalidTarget(a, m) => last'.outcome = "too_new"
                 /\ ratings' = ratings
    /\ \A cmd \in Commands, a \in TenureActors, m \in TenureTargets :
          (RepCommand(cmd, a, m, TRUE) /\ TooNewToRate(a))
              => /\ last'.outcome # "too_new"
                 /\ (CooldownPasses(cmd, a) /\ ~InvalidTarget(a, m))
                       => /\ last'.outcome = "ok"
                          /\ reputation' # reputation

C18_TenureGatesRateOnly == [][C18_Step]_vars

\* the account too new to rate was told so, after it gave and took rep
C18_Witness ==
    /\ last.outcome = "too_new"
    /\ \A a \in TenureActors : TooNewToRate(a)
    /\ given[1] = 1 /\ taken[1] = 1
    /\ ratings = {}

\* C19 (SpecFrame): the export file holds exactly one entry per account with
\* a reputation record, keyed by the account id as a string, and the value
\* of each entry is an object with the integer fields rep and neg_rep.
C19_ExportObjects ==
    exported.written =>
        /\ \A e1, e2 \in exported.entries : (e1.key = e2.key) => (e1 = e2)
        /\ \A e \in exported.entries : e.value.kind = "object"

\* C20 (SpecFrame): a step in which a rep or norep is accepted on m changes
\* no reputation record but m's and no rating; a step in which a rate is
\* accepted changes no reputation record and no rating but the one of its
\* rater and target; every other step (checkrep, leaderboard, navigation,
\* export, a rejected submission) leaves both tables as they were.
OtherRepRows(table, m) == {r \in table : r.user_id # m}

OtherPairRows(table, p) ==
    {x \in table : ~(x.rater_id = p[1] /\ x.target_id = p[2])}

C20_Step ==
    /\ \A m \in Accounts :
          (given'[m] # given[m] \/ taken'[m] # taken[m])
              => /\ OtherRepRows(reputation', m) = OtherRepRows(reputation, m)
                 /\ RepRows(reputation', m) # RepRows(reputation, m)
                 /\ ratings' = ratings
    /\ (last'.reply = "rate")
          => /\ reputation' = reputation
             /\ \E p \in DOMAIN submitted :
                   /\ submitted'[p] = last'.value
                   /\ OtherPairRows(ratings', p) = OtherPairRows(ratings, p)
    /\ (given' = given /\ taken' = taken /\ last'.reply # "rate")
          => /\ reputation' = reputation
             /\ ratings' = ratings

C20_Frame == [][C20_Step]_vars

\* every command has run: a rep and a norep were accepted, two ratings are
\* stored, the second page of a leaderboard is open, the export is written,
\* and the account looked up last has no record
C20_Witness ==
    /\ last = Result("ok", 0, "checkrep")
    /\ \A m \in Lookups : RepRows(reputation, m) = {}
    /\ given[1] = 1 /\ taken[3] = 1
    /\ Cardinality(ratings) = 2
    /\ view.page = 1
    /\ exported.written
    /\ Cardinality(reputation) = 11

====
